---- MODULE Spec2Model ----
(***************************************************************************)
(* Debug bridge of the plugin system: the extension side (DebugExtImpl)    *)
(* with its contribution table and session registry, the host side         *)
(* (DebugMainImpl) with its proxy-contributor table, and the ordered       *)
(* remote-call channel from the extension side to the host side.           *)
(*                                                                         *)
(* Every handler is one action; $createDebugSession has two awaits and is  *)
(* therefore three steps, between which other handlers may run.  The       *)
(* variable reply records the handler that ran last, its arguments and     *)
(* its outcome, so that results and rejections can be stated.              *)
(***************************************************************************)
EXTENDS Naturals, Sequences, FiniteSets, TLC

\* ------------------------------------------------------------------ bounds
MaxContributions == 2   \* registrations made in one run
MaxSessions == 2        \* session ids minted in one run
MaxPending == 1         \* $createDebugSession calls in flight at once
MaxQueue == 1           \* calls in flight from the extension side to the host
MaxRelay == 2           \* calls in flight from the host to the extension side
MaxBreakpoints == 1     \* breakpoints of one resource in the host's store
MaxList == 2            \* breakpoints in one addBreakpoints or removeBreakpoints call
MaxConfigurations == 2  \* configurations in the host's configuration store

\* ------------------------------------------------------------------ values
\* Every value a call returns is a record of a kind and a list of strings.
Undefined == [k |-> "undefined", v |-> <<>>]
List(s) == [k |-> "list", v |-> s]
Value(s) == [k |-> "value", v |-> <<s>>]
Error(s) == [k |-> "error", v |-> <<s>>]
Void == [k |-> "void", v |-> <<>>]
Pending == [k |-> "pending", v |-> <<>>]

NotFound == Error("NotFound")
NoExecutable == Error("NotConfigured")
UnsupportedExecutable == Error("UnsupportedExecutable")
ProviderError == Error("ProviderError")
ConnectionError == Error("ConnectionError")

\* Faulty variant: hands out again an id that is no longer live.
uuidReused(prefix, n, live) ==
    IF \E i \in 1..n : (prefix \o ToString(i)) \notin live
    THEN prefix \o ToString(CHOOSE i \in 1..n : (prefix \o ToString(i)) \notin live)
    ELSE prefix \o ToString(n + 1)
\* uuid.v4(): a token that was never issued before; n tokens were issued so far.
uuid(prefix, n, live) == prefix \o ToString(n + 1)

Issued(prefix, n) == { prefix \o ToString(i) : i \in 1..n }

\* An id no uuid call ever returns: what a caller passes that was never created.
UnknownId == "unknown-id"

\* ---------------------------------------------------------------- providers
\* The plugin's theia.DebugConfigurationProvider objects.  Both methods are
\* optional and may return nothing (ProviderResult<T>).
Providers == {"pFull", "pList", "pEmpty", "pBare"}
DebugTypes == {"node"}
Configurations == {"launch"}

HasProvide(p) == p \in {"pFull", "pList", "pEmpty"}
HasResolve(p) == p \in {"pFull", "pEmpty"}
\* provider.provideDebugConfigurations(undefined)
providerProvide(p) ==
    CASE p = "pFull" -> List(<<"pFull:launch", "pFull:attach">>)
      [] p = "pList" -> List(<<"pList:launch">>)
      [] OTHER -> Undefined
\* provider.resolveDebugConfiguration(undefined, config)
providerResolve(p, config) ==
    IF p = "pFull" THEN Value(p \o ":" \o config) ELSE Undefined

\* The package.json debugger contribution of the plugin: with or without an
\* adapterExecutableCommand.
Packages == {"pkgCommand", "pkgProgram"}
HasAdapterExecutableCommand(pkg) == pkg = "pkgCommand"

\* The plugins that register: a provider with the package contribution it ships.
Plugins == {<<"pFull", "pkgProgram">>, <<"pList", "pkgCommand">>,
            <<"pEmpty", "pkgProgram">>, <<"pBare", "pkgCommand">>}

\* -------------------------------------------------------------- breakpoints
\* An optional value: <<>> when undefined, <<v>> when defined.
None == <<>>
Some(v) == <<v>>

\* The resources that have breakpoints, in the order the store lists them.
UriOrder == <<"file:///a", "file:///b">>
Uris == { UriOrder[i] : i \in 1..Len(UriOrder) }

\* vscode-uri: a string to its components and back.
URIparse(s) ==
    CASE s = "file:///a" -> [scheme |-> "file", authority |-> "", path |-> "/a"]
      [] s = "file:///b" -> [scheme |-> "file", authority |-> "", path |-> "/b"]
      [] OTHER -> [scheme |-> "", authority |-> "", path |-> s]
URIrevive(data) == [scheme |-> data.scheme, authority |-> data.authority, path |-> data.path]
URItoString(u) ==
    IF u.scheme = "" THEN u.path ELSE u.scheme \o "://" \o u.authority \o u.path

\* A breakpoint of the host's store (SourceBreakpoint).
SourceBreakpoint(uri, enabled, line, column, condition, hitCondition, logMessage) ==
    [uri |-> uri, enabled |-> enabled,
     raw |-> [line |-> line, column |-> column, condition |-> condition,
              hitCondition |-> hitCondition, logMessage |-> logMessage]]
\* The breakpoints a resource may get in the editor.
SourceBreakpoints(uri) ==
    { SourceBreakpoint(uri, TRUE, 5, None, Some("x"), None, None),
      SourceBreakpoint(uri, FALSE, 7, Some(3), None, Some("2"), Some("log")) }

\* ------------------------------------------------------------------- state
VARIABLES
    debugAdapterContributions,  \* DebugExtImpl: contributionId -> DebugPluginContribution
    packageContributions,       \* DebugExtImpl: contributionId -> package contribution
    debugSessions,              \* DebugExtImpl: sessionId -> PluginDebugSession
    activeDebugSession,         \* DebugExtImpl: the field read by the plugin API
    contributionIds,            \* number of contribution ids uuid.v4() has issued
    sessionIds,                 \* number of session ids uuid.v4() has issued
    creating,                   \* the $createDebugSession calls suspended at an await
    lifecycle,                  \* per minted session id: its subprocess and what was invoked on it
    toMain,                     \* calls issued by the extension side, not yet handled by the host
    proxyContributors,          \* DebugMainImpl: contributorId -> proxy contributor
    contributionManager,        \* host DebugContributionManager: debug type -> contributor
    sessionManager,             \* host DebugSessionManager: the session ids it holds
    reply,                      \* the handler that ran last: its arguments and outcome
    breakpoints,                \* DebugExtImpl: the breakpoints the plugin API shows
    toExt,                      \* calls issued by the host side, not yet handled by the extension side
    breakpointsManager,         \* host BreakpointManager: the source breakpoints, in order
    configurationManager,       \* host DebugConfigurationManager: the configurations of the workspace
    starting,                   \* the $startDebugging calls suspended at sessionManager.start
    os,                         \* the platform of the process and its environment
    adapter                     \* the PluginDebugAdapterContribution under test

vars == <<debugAdapterContributions, packageContributions, debugSessions,
          activeDebugSession, contributionIds, sessionIds, creating, lifecycle,
          toMain, proxyContributors, contributionManager, sessionManager, reply,
          breakpoints, toExt, breakpointsManager, configurationManager, starting,
          os, adapter>>

extRegistries == <<debugAdapterContributions, packageContributions, debugSessions>>
extState == <<debugAdapterContributions, packageContributions, debugSessions,
              activeDebugSession, contributionIds, sessionIds, creating, lifecycle>>
mainState == <<proxyContributors, contributionManager, sessionManager>>
\* What the handlers of the registries and sessions never touch: the breakpoints
\* of both sides, the host's configurations and $startDebugging calls, and the
\* adapter contribution with its platform.
apart == <<breakpoints, breakpointsManager, configurationManager, starting, os, adapter>>

Idle == [pc |-> "idle", contributionId |-> "", configuration |-> "",
         package |-> "", sessionId |-> ""]

\* from: where a relayed call came from (the session, command and arguments of
\* the custom request that caused it), or what a step of $createDebugSession
\* got for an executable; empty for every other call.
CallFrom(op, id, arg, result, from) ==
    [op |-> op, id |-> id, arg |-> arg, result |-> result, from |-> from]
Call(op, id, arg, result) == CallFrom(op, id, arg, result, <<>>)
Message(op, a1, a2, a3, from) == [op |-> op, a1 |-> a1, a2 |-> a2, a3 |-> a3, from |-> from]

EmptyMap == [x \in {} |-> ""]

\* f without key k (Map.delete)
Without(f, k) == [x \in DOMAIN f \ {k} |-> f[x]]
\* f with key k set to v (Map.set)
With(f, k, v) == [x \in DOMAIN f \cup {k} |-> IF x = k THEN v ELSE f[x]]

InitBridge ==
    /\ debugAdapterContributions = EmptyMap
    /\ packageContributions = EmptyMap
    /\ debugSessions = EmptyMap
    /\ activeDebugSession = ""
    /\ contributionIds = 0
    /\ sessionIds = 0
    /\ creating = [i \in 1..MaxPending |-> Idle]
    /\ lifecycle = EmptyMap
    /\ toMain = <<>>
    /\ proxyContributors = EmptyMap
    /\ contributionManager = EmptyMap
    /\ sessionManager = {}
    /\ reply = Call("constructor", "", "", Void)
    /\ breakpoints = <<>>
    /\ toExt = <<>>
    /\ breakpointsManager = [u \in Uris |-> <<>>]
    /\ configurationManager = <<>>
    /\ starting = <<>>
\* The bridge on a linux host; no PluginDebugAdapterContribution is constructed.
Init ==
    /\ InitBridge
    /\ os = [platform |-> "linux", env |-> {}]
    /\ adapter = None

\* The ids a caller of the extension side can name: those a call returned to
\* it, and an id that was never issued.
KnownContributionIds == Issued("c", contributionIds) \cup {UnknownId}
ReturnedSessionIds == { s \in DOMAIN lifecycle : lifecycle[s].returned }
KnownSessionIds == ReturnedSessionIds \cup {UnknownId}

\* ------------------------------------------- contribution registry (extension side)

\* DebugPluginContribution.provideDebugConfigurations
contributionProvide(c) ==
    IF HasProvide(c.provider) /\ providerProvide(c.provider) # Undefined
    THEN providerProvide(c.provider)
    ELSE List(<<>>)

\* DebugPluginContribution.resolveDebugConfiguration
contributionResolve(c, config) ==
    IF HasResolve(c.provider) THEN providerResolve(c.provider, config) ELSE Undefined

\* VSCodeDebugAdapterContribution, the base class of DebugPluginContribution:
\* what the plugin's package.json declares for the debug type.
contributionLanguages(c) == List(<<c.debugType \o ":language">>)
contributionSchemaAttributes(c) == List(<<c.debugType \o ":attributes">>)
contributionSnippets(c) == List(<<c.debugType \o ":snippet">>)

\* Map.get(contributionId) of the contribution table
lookupContribution(id) ==
    IF id \in DOMAIN debugAdapterContributions THEN Value(id) ELSE Undefined

registerDebugConfigurationProvider(debugType, provider, package) ==
    LET contributionId == uuid("c", contributionIds, DOMAIN debugAdapterContributions) IN
    /\ contributionIds < MaxContributions
    /\ Len(toMain) < MaxQueue
    /\ contributionIds' = contributionIds + 1
    /\ debugAdapterContributions' =
           With(debugAdapterContributions, contributionId,
                [debugType |-> debugType, provider |-> provider])
    /\ packageContributions' = With(packageContributions, contributionId, package)
    /\ toMain' = Append(toMain, Message("$registerDebugConfigurationProvider",
                                        contributionId, debugType, "", <<>>))
    /\ reply' = Call("registerDebugConfigurationProvider", contributionId, provider, Void)
    /\ UNCHANGED <<debugSessions, activeDebugSession, sessionIds, creating, lifecycle>>
    /\ UNCHANGED <<mainState, toExt, apart>>

\* The disposer a registration returned; Disposable runs it once.
dispose(contributionId) ==
    /\ contributionId \in DOMAIN debugAdapterContributions
    /\ Len(toMain) < MaxQueue
    /\ debugAdapterContributions' = Without(debugAdapterContributions, contributionId)
    /\ packageContributions' = Without(packageContributions, contributionId)
    /\ toMain' = Append(toMain, Message("$unregisterDebugConfigurationProvider",
                                        contributionId, "", "", <<>>))
    /\ reply' = Call("dispose", contributionId, "", Void)
    /\ UNCHANGED <<debugSessions, activeDebugSession, contributionIds, sessionIds,
                   creating, lifecycle>>
    /\ UNCHANGED <<mainState, toExt, apart>>

\* A capability query changes nothing; reply holds what it returned.  The
\* handlers the host calls leave the channel they are called through to the
\* step that delivers the call.
Query(op, contributionId, arg, result) ==
    /\ reply' = Call(op, contributionId, arg, result)
    /\ UNCHANGED <<extState, toMain, mainState, apart>>

\* Faulty variant: an unknown contribution id is an error.
getSupportedLanguagesRejects(contributionId) ==
    LET found == lookupContribution(contributionId) IN
    Query("$getSupportedLanguages", contributionId, "",
          IF found # Undefined
          THEN contributionLanguages(debugAdapterContributions[found.v[1]])
          ELSE NotFound)
\* $getSupportedLanguages (lines 202-210)
getSupportedLanguages(contributionId) ==
    LET found == lookupContribution(contributionId) IN
    Query("$getSupportedLanguages", contributionId, "",
          IF found # Undefined
          THEN contributionLanguages(debugAdapterContributions[found.v[1]])
          ELSE List(<<>>))

getSchemaAttributes(contributionId) ==
    LET found == lookupContribution(contributionId) IN
    Query("$getSchemaAttributes", contributionId, "",
          IF found # Undefined
          THEN contributionSchemaAttributes(debugAdapterContributions[found.v[1]])
          ELSE List(<<>>))

getConfigurationSnippets(contributionId) ==
    LET found == lookupContribution(contributionId) IN
    Query("$getConfigurationSnippets", contributionId, "",
          IF found # Undefined
          THEN contributionSnippets(debugAdapterContributions[found.v[1]])
          ELSE List(<<>>))

\* Faulty variant: asks the contribution registered last, whatever the id.
provideDebugConfigurationsOfLatest(contributionId) ==
    LET found == lookupContribution(uuid("c", contributionIds - 1, {})) IN
    Query("$provideDebugConfigurations", contributionId, "",
          IF contributionIds > 0 /\ found # Undefined
          THEN LET result == contributionProvide(debugAdapterContributions[found.v[1]])
               IN  IF result # Undefined THEN result ELSE List(<<>>)
          ELSE List(<<>>))
\* $provideDebugConfigurations (lines 230-240)
provideDebugConfigurations(contributionId) ==
    LET found == lookupContribution(contributionId) IN
    Query("$provideDebugConfigurations", contributionId, "",
          IF found # Undefined
          THEN LET result == contributionProvide(debugAdapterContributions[found.v[1]])
               IN  IF result # Undefined THEN result ELSE List(<<>>)
          ELSE List(<<>>))

resolveDebugConfigurations(contributionId, debugConfiguration) ==
    LET found == lookupContribution(contributionId) IN
    Query("$resolveDebugConfigurations", contributionId, debugConfiguration,
          IF found # Undefined
          THEN contributionResolve(debugAdapterContributions[found.v[1]], debugConfiguration)
          ELSE Undefined)

\* ------------------------------------------------ session registry and lifecycle

\* What the command or the contribution asked for an executable comes back with:
\* nothing, an error of its own, or an object with some of the two properties.
Executable(keys) == [k |-> "executable", v |-> keys]
ExecutableOutcomes ==
    {Undefined, ProviderError, Executable(<<>>), Executable(<<"command">>),
     Executable(<<"modulePath">>), Executable(<<"command", "modulePath">>)}

Has(executable, key) == \E i \in 1..Len(executable.v) : executable.v[i] = key

\* DebugExtImpl.getExecutable: the source asked, then what it makes of the outcome.
executableSource(package) ==
    IF HasAdapterExecutableCommand(package)
    THEN "executeCommand"
    ELSE "provideDebugAdapterExecutable"
getExecutable(outcome) ==
    IF outcome = ProviderError THEN ProviderError
    ELSE IF outcome # Undefined THEN outcome
    ELSE NoExecutable

\* Faulty variant: looks for a modulePath before it looks for a command.
startDebugAdapterModuleFirst(executable) ==
    IF Has(executable, "modulePath") THEN Value("fork")
    ELSE IF Has(executable, "command") THEN Value("spawn")
    ELSE UnsupportedExecutable
\* startDebugAdapter: the way the subprocess is started, or the error thrown.
startDebugAdapter(executable) ==
    IF Has(executable, "command") THEN Value("spawn")
    ELSE IF Has(executable, "modulePath") THEN Value("fork")
    ELSE UnsupportedExecutable

\* The subprocess of a session was started, by spawn or by fork.
Launched(how, sessionId) == [k |-> "launched", v |-> <<how, sessionId>>]

\* A session id just minted: its subprocess runs, nothing was invoked on it yet.
\* connection: the id ensureConnection was called with; channel: the connection
\* start() was given.
Minted(connection) ==
    [connection |-> connection, ensure |-> 1, channel |-> "",
     start |-> 0, stop |-> 0, kill |-> 0, returned |-> FALSE, startAfterStop |-> FALSE]

CanMint == sessionIds + Cardinality({i \in 1..MaxPending : creating[i].pc = "getExecutable"})
               < MaxSessions

\* Faulty variant: goes on without the contribution.
createDebugSessionLookupAny(i, contributionId, debugConfiguration) ==
    /\ creating[i].pc = "idle"
    /\ CanMint
    /\ creating' = [creating EXCEPT ![i] =
           [pc |-> "getExecutable", contributionId |-> contributionId,
            configuration |-> debugConfiguration,
            package |-> IF contributionId \in DOMAIN packageContributions
                        THEN packageContributions[contributionId] ELSE "",
            sessionId |-> ""]]
    /\ reply' = Call("$createDebugSession", contributionId, debugConfiguration, Pending)
    /\ UNCHANGED <<debugAdapterContributions, packageContributions, debugSessions,
                   activeDebugSession, contributionIds, sessionIds, lifecycle>>
    /\ UNCHANGED <<toMain, mainState, apart>>
\* $createDebugSession up to its first await (lines 171-177).  reply names the
\* call by "$createDebugSession" here and by the await it resumes from in the
\* two steps that follow.
createDebugSessionLookup(i, contributionId, debugConfiguration) ==
    /\ creating[i].pc = "idle"
    /\ lookupContribution(contributionId) = Undefined \/ CanMint
    /\ IF lookupContribution(contributionId) = Undefined
       THEN /\ reply' = Call("$createDebugSession", contributionId, debugConfiguration,
                             NotFound)
            /\ UNCHANGED creating
       ELSE /\ creating' = [creating EXCEPT ![i] =
                   [pc |-> "getExecutable", contributionId |-> contributionId,
                    configuration |-> debugConfiguration,
                    package |-> packageContributions[contributionId],
                    sessionId |-> ""]]
            /\ reply' = Call("$createDebugSession", contributionId, debugConfiguration,
                             Pending)
    /\ UNCHANGED <<debugAdapterContributions, packageContributions, debugSessions,
                   activeDebugSession, contributionIds, sessionIds, lifecycle>>
    /\ UNCHANGED <<toMain, mainState, apart>>

\* $createDebugSession from the executable's arrival to its second await
\* (lines 177-188): launch, mint, store, ask for the connection.
createDebugSessionLaunch(i, outcome) ==
    LET executable == getExecutable(outcome)
        launched == IF executable.k = "error" THEN executable
                    ELSE startDebugAdapter(executable)
        sessionId == uuid("s", sessionIds, DOMAIN debugSessions)
    IN
    /\ creating[i].pc = "getExecutable"
    /\ IF launched.k = "error"
       THEN /\ creating' = [creating EXCEPT ![i] = Idle]
            /\ reply' = CallFrom("$createDebugSession/getExecutable",
                                 creating[i].contributionId,
                                 executableSource(creating[i].package), launched, <<outcome>>)
            /\ UNCHANGED <<debugSessions, sessionIds, lifecycle>>
       ELSE /\ sessionIds' = sessionIds + 1
            /\ debugSessions' = With(debugSessions, sessionId,
                   [id |-> sessionId, configuration |-> creating[i].configuration])
            /\ lifecycle' = With(lifecycle, sessionId, Minted(sessionId))
            /\ creating' = [creating EXCEPT ![i].pc = "ensureConnection",
                                            ![i].sessionId = sessionId]
            /\ reply' = CallFrom("$createDebugSession/getExecutable",
                                 creating[i].contributionId,
                                 executableSource(creating[i].package),
                                 Launched(launched.v[1], sessionId), <<outcome>>)
    /\ UNCHANGED <<debugAdapterContributions, packageContributions, activeDebugSession,
                   contributionIds>>
    /\ UNCHANGED <<toMain, mainState, toExt, apart>>

\* DebugAdapterSessionImpl.start(channel) on a minted session
sessionStart(l) ==
    [l EXCEPT !.start = l.start + 1, !.channel = l.connection,
              !.startAfterStop = (l.stop > 0)]

\* DebugAdapterSessionImpl.stop(): disposes the channel, which kills the subprocess
sessionStop(l) ==
    [l EXCEPT !.stop = l.stop + 1, !.kill = l.kill + 1]

\* Faulty variant: returns the id without starting the session.
createDebugSessionStartSkipped(i, connected) ==
    LET sessionId == creating[i].sessionId IN
    /\ creating[i].pc = "ensureConnection"
    /\ creating' = [creating EXCEPT ![i] = Idle]
    /\ IF connected
       THEN /\ lifecycle' = [lifecycle EXCEPT ![sessionId].returned = TRUE]
            /\ reply' = Call("$createDebugSession/ensureConnection",
                             creating[i].contributionId, creating[i].configuration,
                             Value(sessionId))
       ELSE /\ reply' = Call("$createDebugSession/ensureConnection",
                             creating[i].contributionId, creating[i].configuration,
                             ConnectionError)
            /\ UNCHANGED lifecycle
    /\ UNCHANGED <<debugAdapterContributions, packageContributions, debugSessions,
                   activeDebugSession, contributionIds, sessionIds>>
    /\ UNCHANGED <<toMain, mainState, toExt, apart>>
\* $createDebugSession from the connection's arrival to its return (lines 188-191).
createDebugSessionStart(i, connected) ==
    LET sessionId == creating[i].sessionId IN
    /\ creating[i].pc = "ensureConnection"
    /\ creating' = [creating EXCEPT ![i] = Idle]
    /\ IF connected
       THEN /\ lifecycle' = [lifecycle EXCEPT ![sessionId] =
                                [sessionStart(@) EXCEPT !.returned = TRUE]]
            /\ reply' = Call("$createDebugSession/ensureConnection", creating[i].contributionId,
                             creating[i].configuration, Value(sessionId))
       ELSE /\ reply' = Call("$createDebugSession/ensureConnection", creating[i].contributionId,
                             creating[i].configuration, ConnectionError)
            /\ UNCHANGED lifecycle
    /\ UNCHANGED <<debugAdapterContributions, packageContributions, debugSessions,
                   activeDebugSession, contributionIds, sessionIds>>
    /\ UNCHANGED <<toMain, mainState, toExt, apart>>

\* Map.get(sessionId) of the session registry
lookupSession(sessionId) ==
    IF sessionId \in DOMAIN debugSessions THEN Value(sessionId) ELSE Undefined

\* Faulty variant: an unknown session id is an error.
terminateRejectsUnknown(sessionId) ==
    /\ IF lookupSession(sessionId) # Undefined
       THEN /\ debugSessions' = Without(debugSessions, sessionId)
            /\ lifecycle' = [lifecycle EXCEPT ![sessionId] = sessionStop(@)]
            /\ reply' = Call("$terminateDebugSession", sessionId, "", Void)
       ELSE /\ reply' = Call("$terminateDebugSession", sessionId, "", NotFound)
            /\ UNCHANGED <<debugSessions, lifecycle>>
    /\ UNCHANGED <<debugAdapterContributions, packageContributions, activeDebugSession,
                   contributionIds, sessionIds, creating>>
    /\ UNCHANGED <<toMain, mainState, apart>>
\* Faulty variant: stops the session it finds or once had under the id.
terminateStopsAgain(sessionId) ==
    /\ IF sessionId \in DOMAIN lifecycle
       THEN /\ debugSessions' = Without(debugSessions, sessionId)
            /\ lifecycle' = [lifecycle EXCEPT ![sessionId] = sessionStop(@)]
       ELSE UNCHANGED <<debugSessions, lifecycle>>
    /\ reply' = Call("$terminateDebugSession", sessionId, "", Void)
    /\ UNCHANGED <<debugAdapterContributions, packageContributions, activeDebugSession,
                   contributionIds, sessionIds, creating>>
    /\ UNCHANGED <<toMain, mainState, apart>>
\* Faulty variant: stops the session and leaves it in the registry.
terminateKeepsEntry(sessionId) ==
    /\ IF lookupSession(sessionId) # Undefined
       THEN lifecycle' = [lifecycle EXCEPT ![sessionId] = sessionStop(@)]
       ELSE UNCHANGED lifecycle
    /\ reply' = Call("$terminateDebugSession", sessionId, "", Void)
    /\ UNCHANGED <<debugAdapterContributions, packageContributions, debugSessions,
                   activeDebugSession, contributionIds, sessionIds, creating>>
    /\ UNCHANGED <<toMain, mainState, apart>>
\* $terminateDebugSession (lines 194-200): delete, then stop, in one block.
terminateDebugSession(sessionId) ==
    /\ IF lookupSession(sessionId) # Undefined
       THEN /\ debugSessions' = Without(debugSessions, sessionId)
            /\ lifecycle' = [lifecycle EXCEPT ![sessionId] = sessionStop(@)]
       ELSE UNCHANGED <<debugSessions, lifecycle>>
    /\ reply' = Call("$terminateDebugSession", sessionId, "", Void)
    /\ UNCHANGED <<debugAdapterContributions, packageContributions, activeDebugSession,
                   contributionIds, sessionIds, creating>>
    /\ UNCHANGED <<toMain, mainState, apart>>

\* ------------------------------------------- notifications from the host (lines 139-163)

Fired(emitter, sessionId) == [k |-> "fired", v |-> <<emitter, sessionId>>]

Notify(op, sessionId, arg, result) ==
    /\ reply' = Call(op, sessionId, arg, result)
    /\ UNCHANGED <<debugAdapterContributions, packageContributions, debugSessions,
                   contributionIds, sessionIds, creating, lifecycle>>
    /\ UNCHANGED <<toMain, mainState, apart>>

Events == {"stopped"}

onSessionCustomEvent(sessionId, event) ==
    /\ Notify("$onSessionCustomEvent", sessionId, event,
              IF lookupSession(sessionId) # Undefined
              THEN Fired("onDidReceiveDebugSessionCustomEvent", sessionId)
              ELSE Void)
    /\ UNCHANGED activeDebugSession

sessionDidCreate(sessionId) ==
    /\ Notify("$sessionDidCreate", sessionId, "",
              IF lookupSession(sessionId) # Undefined
              THEN Fired("onDidStartDebugSession", sessionId)
              ELSE Void)
    /\ UNCHANGED activeDebugSession

\* Faulty variant: fires without looking the session up.
sessionDidDestroyUnchecked(sessionId) ==
    /\ Notify("$sessionDidDestroy", sessionId, "",
              Fired("onDidTerminateDebugSession", sessionId))
    /\ UNCHANGED activeDebugSession
sessionDidDestroy(sessionId) ==
    /\ Notify("$sessionDidDestroy", sessionId, "",
              IF lookupSession(sessionId) # Undefined
              THEN Fired("onDidTerminateDebugSession", sessionId)
              ELSE Void)
    /\ UNCHANGED activeDebugSession

\* sessionId "" is undefined: no session is active.  The session found is a
\* constant of the handler, handed to the listeners.
sessionDidChange(sessionId) ==
    LET active == IF sessionId # "" /\ lookupSession(sessionId) # Undefined
                  THEN sessionId ELSE ""
    IN /\ Notify("$sessionDidChange", sessionId, "",
                 Fired("onDidChangeActiveDebugSession", active))
       /\ UNCHANGED activeDebugSession

\* ------------------------------------------------------------ custom requests

Commands == {"evaluate"}
Arguments == {"args"}

\* The forwarder a session is constructed with (line 185), called by the plugin
\* as session.customRequest(command, args): the host call it issues.
forwarder(sessionId, command, args) ==
    Message("$customRequest", command, args, "", <<sessionId, command, args>>)

sessionCustomRequest(sessionId, command, args) ==
    /\ sessionId \in DOMAIN debugSessions
    /\ Len(toMain) < MaxQueue
    /\ toMain' = Append(toMain, forwarder(sessionId, command, args))
    /\ reply' = Call("customRequest", sessionId, command, Pending)
    /\ UNCHANGED <<extState, mainState, toExt, apart>>

\* ------------------------------------------------------------------ host side

\* The host's DebugContributionManager: one contributor per debug type.
registerDebugPluginContributor(manager, type, contributorId) ==
    With(manager, type, contributorId)
unregisterDebugPluginContributor(manager, type) == Without(manager, type)

mainRegisterDebugConfigurationProvider ==
    /\ toMain # <<>>
    /\ Head(toMain).op = "$registerDebugConfigurationProvider"
    /\ LET contributorId == Head(toMain).a1
           type == Head(toMain).a2
       IN /\ proxyContributors' = With(proxyContributors, contributorId, type)
          /\ contributionManager' =
                 registerDebugPluginContributor(contributionManager, type, contributorId)
          /\ reply' = Call("$registerDebugConfigurationProvider", contributorId, type, Void)
    /\ toMain' = Tail(toMain)
    /\ UNCHANGED <<extState, sessionManager, toExt, apart>>

\* Faulty variant: takes the contributor from the manager and keeps the id.
mainUnregisterKeepsProxy ==
    /\ toMain # <<>>
    /\ Head(toMain).op = "$unregisterDebugConfigurationProvider"
    /\ LET contributorId == Head(toMain).a1 IN
       /\ IF contributorId \in DOMAIN proxyContributors
          THEN contributionManager' =
                   unregisterDebugPluginContributor(contributionManager,
                                                    proxyContributors[contributorId])
          ELSE UNCHANGED contributionManager
       /\ reply' = Call("$unregisterDebugConfigurationProvider", contributorId, "", Void)
    /\ UNCHANGED proxyContributors
    /\ toMain' = Tail(toMain)
    /\ UNCHANGED <<extState, sessionManager, toExt, apart>>
mainUnregisterDebugConfigurationProvider ==
    /\ toMain # <<>>
    /\ Head(toMain).op = "$unregisterDebugConfigurationProvider"
    /\ LET contributorId == Head(toMain).a1 IN
       /\ IF contributorId \in DOMAIN proxyContributors
          THEN /\ contributionManager' =
                      unregisterDebugPluginContributor(contributionManager,
                                                       proxyContributors[contributorId])
               /\ proxyContributors' = Without(proxyContributors, contributorId)
          ELSE UNCHANGED <<proxyContributors, contributionManager>>
       /\ reply' = Call("$unregisterDebugConfigurationProvider", contributorId, "", Void)
    /\ toMain' = Tail(toMain)
    /\ UNCHANGED <<extState, sessionManager, toExt, apart>>

\* DebugSessionManager.getSession(sessionId)
getSession(sessionId) ==
    IF sessionId \in sessionManager THEN Value(sessionId) ELSE Undefined

\* DebugSession.sendCustomRequest(command, args): the adapter of that session
\* receives the request and answers it.
Response(sessionId, command, args) == [k |-> "response", v |-> <<sessionId, command, args>>]

\* Faulty variant: an unknown session id yields undefined instead of an error.
mainCustomRequestSilent ==
    /\ toMain # <<>>
    /\ Head(toMain).op = "$customRequest"
    /\ LET sessionId == Head(toMain).a1
           command == Head(toMain).a2
           args == Head(toMain).a3
           session == getSession(sessionId)
       IN reply' = CallFrom("$customRequest", sessionId, command,
                            IF session # Undefined
                            THEN Response(session.v[1], command, args)
                            ELSE Undefined,
                            Head(toMain).from)
    /\ toMain' = Tail(toMain)
    /\ UNCHANGED <<extState, mainState, toExt, apart>>
\* DebugMainImpl.$customRequest(sessionId, command, args)
mainCustomRequest ==
    /\ toMain # <<>>
    /\ Head(toMain).op = "$customRequest"
    /\ LET sessionId == Head(toMain).a1
           command == Head(toMain).a2
           args == Head(toMain).a3
           session == getSession(sessionId)
       IN reply' = CallFrom("$customRequest", sessionId, command,
                            IF session # Undefined
                            THEN Response(session.v[1], command, args)
                            ELSE NotFound,
                            Head(toMain).from)
    /\ toMain' = Tail(toMain)
    /\ UNCHANGED <<extState, mainState, toExt, apart>>

\* The host's session manager wraps a session id that $createDebugSession
\* returned in a session object of its own, and later destroys it.
sessionManagerStart(sessionId) ==
    /\ sessionId \in ReturnedSessionIds
    /\ sessionId \notin sessionManager
    /\ lifecycle[sessionId].stop = 0
    /\ sessionManager' = sessionManager \cup {sessionId}
    /\ reply' = Call("sessionManager.start", sessionId, "", Value(sessionId))
    /\ UNCHANGED <<extState, toMain, proxyContributors, contributionManager, toExt, apart>>

sessionManagerDestroy(sessionId) ==
    /\ sessionId \in sessionManager
    /\ sessionManager' = sessionManager \ {sessionId}
    /\ reply' = Call("sessionManager.destroy", sessionId, "", Void)
    /\ UNCHANGED <<extState, toMain, proxyContributors, contributionManager, toExt, apart>>

\* ------------------------------------------------- breakpoints across the bridge

\* A call in flight to the extension side.  The session calls carry an id and
\* an argument, $breakpointsDidChange carries the four lists.
Outbound(op, id, arg) ==
    [op |-> op, id |-> id, arg |-> arg,
     all |-> <<>>, added |-> <<>>, removed |-> <<>>, changed |-> <<>>]
OutboundBreakpoints(all, added, removed, changed) ==
    [op |-> "$breakpointsDidChange", id |-> "", arg |-> "",
     all |-> all, added |-> added, removed |-> removed, changed |-> changed]

\* The extension side takes the call at the head of the channel.
receive(op) ==
    /\ toExt # <<>>
    /\ Head(toExt).op = op
    /\ toExt' = Tail(toExt)

\* b.raw.column || 0
columnOrZero(column) == IF column = None THEN 0 ELSE column[1]

\* DebugMainImpl.toTheiaPluginApiBreakpoints (lines 195-215)
toTheiaPluginApiBreakpoints(sourceBreakpoints) ==
    [i \in 1..Len(sourceBreakpoints) |->
        LET b == sourceBreakpoints[i] IN
        [enabled |-> b.enabled,
         condition |-> b.raw.condition,
         hitCondition |-> b.raw.hitCondition,
         logMessage |-> b.raw.logMessage,
         location |-> Some([uri |-> URIparse(b.uri),
                            range |-> [startLineNumber |-> b.raw.line,
                                       startColumn |-> columnOrZero(b.raw.column),
                                       endLineNumber |-> b.raw.line,
                                       endColumn |-> columnOrZero(b.raw.column)]])]]

\* The origin of the DebugBreakpoint made of one wire breakpoint (lines 171-185)
toOrigin(breakpoint) ==
    LET location == breakpoint.location[1] IN
    [uri |-> URItoString(URIrevive(location.uri)),
     enabled |-> TRUE,
     raw |-> [line |-> location.range.startLineNumber,
              column |-> Some(location.range.startColumn),
              condition |-> breakpoint.condition,
              hitCondition |-> breakpoint.hitCondition,
              logMessage |-> breakpoint.logMessage]]

\* Faulty variant: converts a breakpoint without a location too.
toInternalBreakpointsUnfiltered(wireBreakpoints) ==
    [i \in 1..Len(wireBreakpoints) |->
        IF wireBreakpoints[i].location # None
        THEN toOrigin(wireBreakpoints[i])
        ELSE [uri |-> "", enabled |-> TRUE,
              raw |-> [line |-> 0, column |-> None,
                       condition |-> wireBreakpoints[i].condition,
                       hitCondition |-> wireBreakpoints[i].hitCondition,
                       logMessage |-> wireBreakpoints[i].logMessage]]]
\* DebugMainImpl.toInternalBreakpoints (lines 167-193)
toInternalBreakpoints(wireBreakpoints) ==
    LET located == SelectSeq(wireBreakpoints, LAMBDA b : b.location # None)
    IN  [i \in 1..Len(located) |-> toOrigin(located[i])]

\* BreakpointManager.getBreakpoints(uri) and getBreakpoints()
getBreakpoints(store, uri) == store[uri]
RECURSIVE getAllBreakpoints(_, _)
getAllBreakpoints(store, i) ==
    IF i > Len(UriOrder) THEN <<>>
    ELSE store[UriOrder[i]] \o getAllBreakpoints(store, i + 1)

\* Faulty variant: sends the breakpoints of the resource as the full set.
onDidChangeMarkersOfResource(store, uri) ==
    OutboundBreakpoints(toTheiaPluginApiBreakpoints(getBreakpoints(store, uri)), <<>>, <<>>,
                        toTheiaPluginApiBreakpoints(getBreakpoints(store, uri)))
\* The listener of the store's marker changes (lines 68-72): the call it issues.
onDidChangeMarkers(store, uri) ==
    OutboundBreakpoints(toTheiaPluginApiBreakpoints(getAllBreakpoints(store, 1)), <<>>, <<>>,
                        toTheiaPluginApiBreakpoints(getBreakpoints(store, uri)))

\* The lists of breakpoints a resource can have: no line twice.
BreakpointLists(uri) ==
    { l \in UNION { [1..n -> SourceBreakpoints(uri)] : n \in 0..MaxBreakpoints } :
        \A i, j \in 1..Len(l) : i # j => l[i] # l[j] }

\* BreakpointManager.setBreakpoints(uri, breakpoints): the store replaces the
\* breakpoints of the resource and fires its marker-change event, whose listener
\* runs in the same step.
setBreakpoints(uri, sourceBreakpoints) ==
    /\ Len(toExt) < MaxRelay
    /\ breakpointsManager' = [breakpointsManager EXCEPT ![uri] = sourceBreakpoints]
    /\ toExt' = Append(toExt, onDidChangeMarkers(breakpointsManager', uri))
    /\ reply' = Call("onDidChangeMarkers", uri, "", Void)
    /\ UNCHANGED <<extState, toMain, mainState, breakpoints, configurationManager,
                   starting, os, adapter>>

\* The event the listeners of onDidChangeBreakpoints receive.
BreakpointsChangeEvent(added, removed, changed) ==
    [k |-> "breakpoints", v |-> <<added, removed, changed>>]

\* $breakpointsDidChange (lines 165-168)
breakpointsDidChange(all, added, removed, changed) ==
    /\ breakpoints' = all
    /\ reply' = Call("$breakpointsDidChange", "", "",
                     BreakpointsChangeEvent(added, removed, changed))
    /\ UNCHANGED <<extState, toMain, mainState, breakpointsManager, configurationManager,
                   starting, os, adapter>>

\* A call of $addBreakpoints or $removeBreakpoints in flight to the host.
BreakpointsMessage(op, wireBreakpoints) ==
    [op |-> op, a1 |-> "", a2 |-> "", a3 |-> "", from |-> <<>>,
     breakpoints |-> wireBreakpoints]

\* A breakpoint the plugin made that has no location (a function breakpoint).
Unlocated ==
    [enabled |-> TRUE, condition |-> Some("f"), hitCondition |-> None,
     logMessage |-> None, location |-> None]
\* The lists a plugin passes: breakpoints it was shown and ones without location.
WireLists ==
    LET known == { breakpoints[i] : i \in 1..Len(breakpoints) } \cup {Unlocated}
    IN  UNION { [1..n -> known] : n \in 1..MaxList }

\* DebugExtImpl.addBreakpoints and removeBreakpoints (lines 104-110)
addBreakpoints(wireBreakpoints) ==
    /\ Len(toMain) < MaxQueue
    /\ toMain' = Append(toMain, BreakpointsMessage("$addBreakpoints", wireBreakpoints))
    /\ reply' = Call("addBreakpoints", "", "", Void)
    /\ UNCHANGED <<extState, mainState, toExt, apart>>
removeBreakpoints(wireBreakpoints) ==
    /\ Len(toMain) < MaxQueue
    /\ toMain' = Append(toMain, BreakpointsMessage("$removeBreakpoints", wireBreakpoints))
    /\ reply' = Call("removeBreakpoints", "", "", Void)
    /\ UNCHANGED <<extState, mainState, toExt, apart>>

\* What the host's session manager is handed by $addBreakpoints and
\* $removeBreakpoints.  The changes it makes to the store arrive as marker
\* changes of their own.  reply keeps the list the call came with in from.
Handed(internalBreakpoints) == [k |-> "handed", v |-> internalBreakpoints]

\* DebugMainImpl.$addBreakpoints and $removeBreakpoints (lines 124-130)
mainAddBreakpoints ==
    /\ toMain # <<>>
    /\ Head(toMain).op = "$addBreakpoints"
    /\ reply' = CallFrom("$addBreakpoints", "", "",
                         Handed(toInternalBreakpoints(Head(toMain).breakpoints)),
                         Head(toMain).breakpoints)
    /\ toMain' = Tail(toMain)
    /\ UNCHANGED <<extState, mainState, toExt, apart>>
mainRemoveBreakpoints ==
    /\ toMain # <<>>
    /\ Head(toMain).op = "$removeBreakpoints"
    /\ reply' = CallFrom("$removeBreakpoints", "", "",
                         Handed(toInternalBreakpoints(Head(toMain).breakpoints)),
                         Head(toMain).breakpoints)
    /\ toMain' = Tail(toMain)
    /\ UNCHANGED <<extState, mainState, toExt, apart>>

\* ------------------------------------------- relays of the host's session events

\* The events of the host's session manager the bridge listens to.
SessionEvents == {"onDidCreateDebugSession", "onDidDestroyDebugSession",
                  "onDidChangeActiveDebugSession", "onDidReceiveDebugSessionCustomEvent"}

\* Faulty variant: the destroyed sessions are not relayed and the custom events
\* are relayed twice.
sessionRelaysUneven(event, sessionId, arg) ==
    CASE event = "onDidCreateDebugSession" -> <<Outbound("$sessionDidCreate", sessionId, "")>>
      [] event = "onDidDestroyDebugSession" -> <<>>
      [] event = "onDidChangeActiveDebugSession" ->
             <<Outbound("$sessionDidChange", sessionId, "")>>
      [] OTHER -> <<Outbound("$onSessionCustomEvent", sessionId, arg),
                    Outbound("$onSessionCustomEvent", sessionId, arg)>>
\* The four listeners of the constructor (lines 74-77): the calls each issues for
\* one event.  sessionId is "" when the event has no current session.
sessionRelays(event, sessionId, arg) ==
    CASE event = "onDidCreateDebugSession" -> <<Outbound("$sessionDidCreate", sessionId, "")>>
      [] event = "onDidDestroyDebugSession" -> <<Outbound("$sessionDidDestroy", sessionId, "")>>
      [] event = "onDidChangeActiveDebugSession" ->
             <<Outbound("$sessionDidChange", sessionId, "")>>
      [] OTHER -> <<Outbound("$onSessionCustomEvent", sessionId, arg)>>

\* The host's session manager fires an event; its listener runs in the same step.
sessionEvent(event, sessionId, arg) ==
    /\ Len(toExt) + Len(sessionRelays(event, sessionId, arg)) <= MaxRelay
    /\ toExt' = toExt \o sessionRelays(event, sessionId, arg)
    /\ reply' = Call(event, sessionId, arg, Void)
    /\ UNCHANGED <<extState, toMain, mainState, apart>>

\* ------------------------------------------------- the host's proxy contributors

\* The methods of a proxy contributor that call the extension side for its
\* contribution.
ProxyMethods == {"provideDebugConfigurations", "resolveDebugConfiguration",
                 "getSupportedLanguages", "getSchemaAttributes",
                 "getConfigurationSnippets", "createDebugSession"}

\* Faulty variant: createDebugSession passes the debug type for the contributor id.
proxyContributorByType(contributorId, type, method, arg) ==
    CASE method = "provideDebugConfigurations" ->
             Outbound("$provideDebugConfigurations", contributorId, "")
      [] method = "resolveDebugConfiguration" ->
             Outbound("$resolveDebugConfigurations", contributorId, arg)
      [] method = "getSupportedLanguages" -> Outbound("$getSupportedLanguages", contributorId, "")
      [] method = "getSchemaAttributes" -> Outbound("$getSchemaAttributes", contributorId, "")
      [] method = "getConfigurationSnippets" ->
             Outbound("$getConfigurationSnippets", contributorId, "")
      [] method = "createDebugSession" -> Outbound("$createDebugSession", type, arg)
      [] OTHER -> Outbound("$terminateDebugSession", arg, "")
\* The proxy contributor $registerDebugConfigurationProvider builds for
\* contributorId and a description of the given type (lines 91-110): the call
\* each of its methods issues.  terminateDebugSession passes the session id on.
proxyContributor(contributorId, type, method, arg) ==
    CASE method = "provideDebugConfigurations" ->
             Outbound("$provideDebugConfigurations", contributorId, "")
      [] method = "resolveDebugConfiguration" ->
             Outbound("$resolveDebugConfigurations", contributorId, arg)
      [] method = "getSupportedLanguages" -> Outbound("$getSupportedLanguages", contributorId, "")
      [] method = "getSchemaAttributes" -> Outbound("$getSchemaAttributes", contributorId, "")
      [] method = "getConfigurationSnippets" ->
             Outbound("$getConfigurationSnippets", contributorId, "")
      [] method = "createDebugSession" -> Outbound("$createDebugSession", contributorId, arg)
      [] OTHER -> Outbound("$terminateDebugSession", arg, "")

\* The host's contribution manager calls a method of the contributor it holds
\* for a debug type.
invokeContributor(type, method, arg) ==
    /\ type \in DOMAIN contributionManager
    /\ Len(toExt) < MaxQueue
    /\ toExt' = Append(toExt, proxyContributor(contributionManager[type], type, method, arg))
    /\ reply' = Call(method, type, arg, Pending)
    /\ UNCHANGED <<extState, toMain, mainState, apart>>

\* ------------------------------------------------------------ $startDebugging

\* A debug configuration of the workspace.
DebugConfiguration(name, request) == [name |-> name, type |-> "node", request |-> request]
\* What the configuration store may hold, two of them under one name, and what
\* a plugin may pass: a name, in the store or not, or a configuration of its own.
StoredConfigurations ==
    {DebugConfiguration("Launch", "launch"), DebugConfiguration("Launch", "attach"),
     DebugConfiguration("Attach", "attach")}
ByName(name) == [k |-> "name", name |-> name, configuration |-> <<>>]
ByConfiguration(c) == [k |-> "configuration", name |-> c.name, configuration |-> <<c>>]
NamesOrConfigurations ==
    {ByName("Launch"), ByName("Attach"), ByName(""),
     ByConfiguration(DebugConfiguration("Own", "launch"))}

\* The user edits the launch configurations: DebugConfigurationManager.all changes.
setConfigurations(all) ==
    /\ configurationManager' = all
    /\ reply' = Call("configurationManager", "", "", Void)
    /\ UNCHANGED <<extState, toMain, mainState, toExt, breakpoints, breakpointsManager,
                   starting, os, adapter>>

\* DebugExtImpl.startDebugging (lines 112-114)
startDebugging(folder, nameOrConfiguration) ==
    /\ Len(toMain) < MaxQueue
    /\ toMain' = Append(toMain, [op |-> "$startDebugging", a1 |-> folder, a2 |-> "",
                                 a3 |-> "", from |-> <<>>,
                                 nameOrConfiguration |-> nameOrConfiguration])
    /\ reply' = Call("startDebugging", nameOrConfiguration.name, nameOrConfiguration.k, Pending)
    /\ UNCHANGED <<extState, mainState, toExt, apart>>

\* The loop of lines 145-149 over the first i options: the last match stays.
RECURSIVE findConfiguration(_, _, _)
findConfiguration(all, i, name) ==
    IF i = 0 THEN None
    ELSE IF all[i].name = name THEN Some(all[i])
    ELSE findConfiguration(all, i - 1, name)

\* The options sessionManager.start is called with (lines 159-162).
StartOptions(configuration, folder) ==
    [configuration |-> configuration,
     workspaceFolderUri |-> IF folder = "" THEN ""
                            ELSE URItoString(URIrevive(URIparse(folder)))]

True == Value("true")
False == Value("false")

\* Faulty variant: starts a session although no configuration was found.
mainStartDebuggingUnguarded ==
    /\ toMain # <<>>
    /\ Head(toMain).op = "$startDebugging"
    /\ Len(starting) < MaxPending
    /\ LET nameOrConfiguration == Head(toMain).nameOrConfiguration
           configuration ==
               IF nameOrConfiguration.k = "name"
               THEN findConfiguration(configurationManager, Len(configurationManager),
                                      nameOrConfiguration.name)
               ELSE nameOrConfiguration.configuration
       IN /\ starting' = Append(starting, StartOptions(configuration, Head(toMain).a1))
          /\ reply' = Call("$startDebugging", nameOrConfiguration.name,
                           nameOrConfiguration.k, Pending)
    /\ toMain' = Tail(toMain)
    /\ UNCHANGED <<extState, mainState, toExt, breakpoints, breakpointsManager,
                   configurationManager, os, adapter>>
\* DebugMainImpl.$startDebugging up to its await (lines 141-159)
mainStartDebugging ==
    /\ toMain # <<>>
    /\ Head(toMain).op = "$startDebugging"
    /\ Len(starting) < MaxPending
    /\ LET nameOrConfiguration == Head(toMain).nameOrConfiguration
           configuration ==
               IF nameOrConfiguration.k = "name"
               THEN findConfiguration(configurationManager, Len(configurationManager),
                                      nameOrConfiguration.name)
               ELSE nameOrConfiguration.configuration
       IN IF configuration = None
          THEN /\ reply' = Call("$startDebugging", nameOrConfiguration.name,
                                nameOrConfiguration.k, False)
               /\ UNCHANGED starting
          ELSE /\ starting' = Append(starting, StartOptions(configuration, Head(toMain).a1))
               /\ reply' = Call("$startDebugging", nameOrConfiguration.name,
                                nameOrConfiguration.k, Pending)
    /\ toMain' = Tail(toMain)
    /\ UNCHANGED <<extState, mainState, toExt, breakpoints, breakpointsManager,
                   configurationManager, os, adapter>>

\* DebugMainImpl.$startDebugging from the return of sessionManager.start
\* (lines 159-164), which comes back with a session, with nothing or with an
\* error: !!session, or the rejection of start passed on.
mainStartDebuggingReturn(i, outcome) ==
    /\ i \in 1..Len(starting)
    /\ starting' = [j \in 1..(Len(starting) - 1) |->
                       IF j < i THEN starting[j] ELSE starting[j + 1]]
    /\ reply' = Call("$startDebugging/start", starting[i].configuration[1].name, outcome,
                     CASE outcome = "session" -> True
                       [] outcome = "undefined" -> False
                       [] OTHER -> ProviderError)
    /\ UNCHANGED <<extState, toMain, mainState, toExt, breakpoints, breakpointsManager,
                   configurationManager, os, adapter>>

\* ------------------------------------------ PluginDebugAdapterContribution

\* A path or an argument is the sequence of its segments: "./r" is <<".", "r">>,
\* "/p" is <<"/", "p">>, "c" is <<"c">> and "" is <<>>.
\* path.normalize: "." goes, ".." takes the segment before it, a root inside goes.
RECURSIVE normalize(_, _)
normalize(done, rest) ==
    IF rest = <<>> THEN done
    ELSE LET h == Head(rest)
         IN CASE h = "." -> normalize(done, Tail(rest))
              [] h = "/" /\ done # <<>> -> normalize(done, Tail(rest))
              [] h = ".." /\ done # <<>> /\ done[Len(done)] \notin {"/", ".."} ->
                     normalize(SubSeq(done, 1, Len(done) - 1), Tail(rest))
              [] h = ".." /\ done # <<>> /\ done[Len(done)] = "/" -> normalize(done, Tail(rest))
              [] OTHER -> normalize(Append(done, h), Tail(rest))
\* path.join
join(a, b) == normalize(<<>>, a \o b)

\* @theia/core os: the platform tests (line 24).
isWindows == os.platform = "win32"
isOSX == os.platform = "darwin"

\* a || b of optional strings: undefined and "" are falsy.
or(a, b) == IF a # None /\ a # Some(<<>>) THEN a ELSE b
\* a || b of optional objects and arrays: only undefined is falsy.
orDefined(a, b) == IF a # None THEN a ELSE b

\* A platform record, or the unqualified part, of a package contribution.
PlatformSpecificAdapterContribution(program, args, runtime, runtimeArgs) ==
    [program |-> program, args |-> args, runtime |-> runtime, runtimeArgs |-> runtimeArgs]
\* The records package.json may give under a platform key, with program p.
PlatformRecords(p) ==
    <<PlatformSpecificAdapterContribution(Some(<<p>>), None, None, None),
      PlatformSpecificAdapterContribution(Some(<<"bin", p>>), Some(<<<<"--p">>>>),
                                          Some(<<".", "r">>), Some(<<<<"--r">>, <<"-x">>>>)),
      PlatformSpecificAdapterContribution(None, None, Some(<<"node">>), None),
      PlatformSpecificAdapterContribution(Some(<<>>), Some(<<>>), None, None)>>
\* The unqualified program, args, runtime and runtimeArgs it may give.
Unqualified ==
    {PlatformSpecificAdapterContribution(None, None, None, None),
     PlatformSpecificAdapterContribution(Some(<<"..", "shared", "p">>), None, None, None),
     PlatformSpecificAdapterContribution(Some(<<"p">>), Some(<<<<"--u">>>>),
                                         Some(<<"/", "usr", "node">>), Some(<<<<"--ur">>>>)),
     PlatformSpecificAdapterContribution(None, None, Some(<<".", "ur">>), None)}
\* PluginPackageDebuggersContribution: the platform keys that are present carry
\* records of one shape, each with the program of its platform; the
\* configuration snippets are absent, empty or two.
PackageContributions ==
    { [winx86 |-> IF "winx86" \in keys THEN Some(PlatformRecords("a86")[i]) ELSE None,
       win |-> IF "win" \in keys THEN Some(PlatformRecords("a")[i]) ELSE None,
       windows |-> IF "windows" \in keys THEN Some(PlatformRecords("aw")[i]) ELSE None,
       osx |-> IF "osx" \in keys THEN Some(PlatformRecords("b")[i]) ELSE None,
       linux |-> IF "linux" \in keys THEN Some(PlatformRecords("c")[i]) ELSE None,
       program |-> u.program, args |-> u.args, runtime |-> u.runtime,
       runtimeArgs |-> u.runtimeArgs, configurationSnippets |-> snippets] :
      keys \in SUBSET {"winx86", "win", "windows", "osx", "linux"},
      i \in 1..4, u \in Unqualified,
      snippets \in {None, Some(<<>>), Some(<<"snippet:launch", "snippet:attach">>)} }

\* The process: its platform, and on windows PROCESSOR_ARCHITEW6432 set or not.
Platforms ==
    {[platform |-> "linux", env |-> {}], [platform |-> "darwin", env |-> {}],
     [platform |-> "win32", env |-> {}],
     [platform |-> "win32", env |-> {"PROCESSOR_ARCHITEW6432"}]}

\* A PluginDebugAdapterContribution is constructed (lines 27-33) in a process on
\* some platform.
InitAdapter ==
    /\ InitBridge
    /\ os \in Platforms
    /\ adapter \in [debugType : DebugTypes, provider : Providers,
                    packageContribution : PackageContributions,
                    pluginPath : {<<"/", "p">>}]

\* Faulty variant: no record for macOS, the linux record is taken there.
toPlatformInfoWithoutOSX(executable) ==
    IF isWindows /\ "PROCESSOR_ARCHITEW6432" \notin os.env
    THEN orDefined(executable.winx86, orDefined(executable.win, executable.windows))
    ELSE IF isWindows THEN orDefined(executable.win, executable.windows)
    ELSE executable.linux
\* PluginDebugAdapterContribution.toPlatformInfo (lines 89-100)
toPlatformInfo(executable) ==
    IF isWindows /\ "PROCESSOR_ARCHITEW6432" \notin os.env
    THEN orDefined(executable.winx86, orDefined(executable.win, executable.windows))
    ELSE IF isWindows THEN orDefined(executable.win, executable.windows)
    ELSE IF isOSX THEN executable.osx
    ELSE executable.linux

\* The record of a platform field of info, when info is defined (info && info.x).
infoAnd(info, field) == IF info = None THEN None ELSE info[1][field]

DebugAdapterExecutable(command, args) ==
    [k |-> "DebugAdapterExecutable", v |-> <<[command |-> command, args |-> args]>>]
NotConfigured == Error("NotConfigured")

\* Faulty variant: the program is put before the runtime arguments.
provideDebugAdapterExecutableProgramFirst(debugConfiguration) ==
    /\ LET packageContribution == adapter.packageContribution
           info == toPlatformInfo(packageContribution)
           found == or(infoAnd(info, "program"), packageContribution.program)
           program == join(adapter.pluginPath, found[1])
           programArgs == orDefined(orDefined(infoAnd(info, "args"), packageContribution.args),
                                    Some(<<>>))[1]
           given == or(infoAnd(info, "runtime"), packageContribution.runtime)
           hasRuntime == given # None /\ given # Some(<<>>)
           runtime == IF hasRuntime /\ Len(given[1]) > 1 /\ given[1][1] = "."
                      THEN join(adapter.pluginPath, given[1])
                      ELSE given[1]
           runtimeArgs == orDefined(orDefined(infoAnd(info, "runtimeArgs"),
                                              packageContribution.runtimeArgs),
                                    Some(<<>>))[1]
       IN reply' = Call("provideDebugAdapterExecutable", "", debugConfiguration,
                        IF found = None \/ found = Some(<<>>) THEN NotConfigured
                        ELSE IF hasRuntime
                        THEN DebugAdapterExecutable(runtime,
                                                    <<program>> \o runtimeArgs \o programArgs)
                        ELSE DebugAdapterExecutable(program, programArgs))
    /\ UNCHANGED <<extState, toMain, mainState, toExt, apart>>
\* PluginDebugAdapterContribution.provideDebugAdapterExecutable (lines 55-74)
provideDebugAdapterExecutable(debugConfiguration) ==
    /\ LET packageContribution == adapter.packageContribution
           info == toPlatformInfo(packageContribution)
           found == or(infoAnd(info, "program"), packageContribution.program)
           program == join(adapter.pluginPath, found[1])
           programArgs == orDefined(orDefined(infoAnd(info, "args"), packageContribution.args),
                                    Some(<<>>))[1]
           given == or(infoAnd(info, "runtime"), packageContribution.runtime)
           hasRuntime == given # None /\ given # Some(<<>>)
           runtime == IF hasRuntime /\ Len(given[1]) > 1 /\ given[1][1] = "."
                      THEN join(adapter.pluginPath, given[1])
                      ELSE given[1]
           runtimeArgs == orDefined(orDefined(infoAnd(info, "runtimeArgs"),
                                              packageContribution.runtimeArgs),
                                    Some(<<>>))[1]
       IN reply' = Call("provideDebugAdapterExecutable", "", debugConfiguration,
                        IF found = None \/ found = Some(<<>>) THEN NotConfigured
                        ELSE IF hasRuntime
                        THEN DebugAdapterExecutable(runtime,
                                                    runtimeArgs \o <<program>> \o programArgs)
                        ELSE DebugAdapterExecutable(program, programArgs))
    /\ UNCHANGED <<extState, toMain, mainState, toExt, apart>>

\* PluginDebugAdapterContribution.provideDebugConfigurations (lines 35-41)
adapterProvideDebugConfigurations ==
    /\ reply' = Call("provideDebugConfigurations", "", "",
                     IF HasProvide(adapter.provider)
                        /\ providerProvide(adapter.provider) # Undefined
                     THEN providerProvide(adapter.provider)
                     ELSE List(<<>>))
    /\ UNCHANGED <<extState, toMain, mainState, toExt, apart>>

\* PluginDebugAdapterContribution.resolveDebugConfiguration (lines 43-49)
adapterResolveDebugConfiguration(config) ==
    /\ reply' = Call("resolveDebugConfiguration", "", config,
                     IF HasResolve(adapter.provider)
                     THEN providerResolve(adapter.provider, config)
                     ELSE Value(config))
    /\ UNCHANGED <<extState, toMain, mainState, toExt, apart>>

TypeError == Error("TypeError")

\* PluginDebugAdapterContribution.getSchemaAttributes (lines 76-83): the empty
\* list when the snippets are defined, Object.keys(undefined) when they are not.
adapterGetSchemaAttributes ==
    /\ reply' = Call("adapter.getSchemaAttributes", "", "",
                     IF adapter.packageContribution.configurationSnippets # None
                     THEN List(<<>>)
                     ELSE TypeError)
    /\ UNCHANGED <<extState, toMain, mainState, toExt, apart>>

\* -------------------------------------------------------------- specification

Slots == 1..MaxPending

\* The plugin registers and disposes providers; the host handles both calls.
Registrations ==
    \/ \E t \in DebugTypes, p \in Plugins :
           registerDebugConfigurationProvider(t, p[1], p[2])
    \/ \E c \in KnownContributionIds : dispose(c)
    \/ mainRegisterDebugConfigurationProvider
    \/ mainUnregisterDebugConfigurationProvider

\* The host queries the capabilities of a contribution.
Queries ==
    \/ \E c \in KnownContributionIds : getSupportedLanguages(c) /\ UNCHANGED toExt
    \/ \E c \in KnownContributionIds : getSchemaAttributes(c) /\ UNCHANGED toExt
    \/ \E c \in KnownContributionIds : getConfigurationSnippets(c) /\ UNCHANGED toExt
    \/ \E c \in KnownContributionIds : provideDebugConfigurations(c) /\ UNCHANGED toExt
    \/ \E c \in KnownContributionIds, d \in Configurations :
           resolveDebugConfigurations(c, d) /\ UNCHANGED toExt

\* The host creates and terminates sessions.
Sessions ==
    \/ \E i \in Slots, c \in KnownContributionIds, d \in Configurations :
           createDebugSessionLookup(i, c, d) /\ UNCHANGED toExt
    \/ \E i \in Slots, o \in ExecutableOutcomes : createDebugSessionLaunch(i, o)
    \/ \E i \in Slots, ok \in BOOLEAN : createDebugSessionStart(i, ok)
    \/ \E s \in KnownSessionIds : terminateDebugSession(s) /\ UNCHANGED toExt

\* The host relays the events of its session manager.
Notifications ==
    \/ \E s \in KnownSessionIds, e \in Events : onSessionCustomEvent(s, e) /\ UNCHANGED toExt
    \/ \E s \in KnownSessionIds : sessionDidCreate(s) /\ UNCHANGED toExt
    \/ \E s \in KnownSessionIds : sessionDidDestroy(s) /\ UNCHANGED toExt
    \/ \E s \in KnownSessionIds \cup {""} : sessionDidChange(s) /\ UNCHANGED toExt

\* The plugin sends custom requests on its sessions; the host's session manager
\* holds the sessions it was given.
Requests ==
    \/ \E s \in DOMAIN debugSessions, c \in Commands \cup DOMAIN debugSessions,
          a \in Arguments : sessionCustomRequest(s, c, a)
    \/ mainCustomRequest
    \/ \E s \in ReturnedSessionIds : sessionManagerStart(s)
    \/ \E s \in sessionManager : sessionManagerDestroy(s)

Next == Registrations \/ Queries \/ Sessions \/ Notifications \/ Requests
Spec == Init /\ [][Next]_vars

\* The contribution registry under registration churn, capability queries and
\* session creation.
NextContributions == Registrations \/ Queries \/ Sessions
SpecContributions == Init /\ [][NextContributions]_vars

\* The session registry under session churn and the host's notifications.
NextSessions == Registrations \/ Sessions \/ Notifications
SpecSessions == Init /\ [][NextSessions]_vars

\* Custom requests between the sessions of both sides.
NextRequests == Registrations \/ Sessions \/ Requests
SpecRequests == Init /\ [][NextRequests]_vars

\* The host's session manager fires events about the sessions it was given; the
\* extension side handles the calls that arrive, in their order.
HostSessionEvents ==
    \/ \E s \in ReturnedSessionIds : sessionEvent("onDidCreateDebugSession", s, "")
    \/ \E s \in ReturnedSessionIds : sessionEvent("onDidDestroyDebugSession", s, "")
    \/ \E s \in ReturnedSessionIds \cup {""} :
           sessionEvent("onDidChangeActiveDebugSession", s, "")
    \/ \E s \in ReturnedSessionIds, e \in Events :
           sessionEvent("onDidReceiveDebugSessionCustomEvent", s, e)
Deliveries ==
    \/ receive("$sessionDidCreate") /\ sessionDidCreate(Head(toExt).id)
    \/ receive("$sessionDidDestroy") /\ sessionDidDestroy(Head(toExt).id)
    \/ receive("$sessionDidChange") /\ sessionDidChange(Head(toExt).id)
    \/ receive("$onSessionCustomEvent")
           /\ onSessionCustomEvent(Head(toExt).id, Head(toExt).arg)
NextRelays == Registrations \/ Sessions \/ HostSessionEvents \/ Deliveries
SpecRelays == Init /\ [][NextRelays]_vars

\* The host calls the contributors its contribution manager holds; the extension
\* side handles the calls that arrive and goes on with the sessions it creates.
ProxyCalls ==
    \/ \E t \in DebugTypes, m \in ProxyMethods, d \in Configurations :
           invokeContributor(t, m, d)
    \/ \E t \in DebugTypes, s \in ReturnedSessionIds :
           invokeContributor(t, "terminateDebugSession", s)
    \/ receive("$getSupportedLanguages") /\ getSupportedLanguages(Head(toExt).id)
    \/ receive("$getSchemaAttributes") /\ getSchemaAttributes(Head(toExt).id)
    \/ receive("$getConfigurationSnippets") /\ getConfigurationSnippets(Head(toExt).id)
    \/ receive("$provideDebugConfigurations") /\ provideDebugConfigurations(Head(toExt).id)
    \/ receive("$resolveDebugConfigurations")
           /\ resolveDebugConfigurations(Head(toExt).id, Head(toExt).arg)
    \/ \E i \in Slots :
           receive("$createDebugSession")
           /\ createDebugSessionLookup(i, Head(toExt).id, Head(toExt).arg)
    \/ receive("$terminateDebugSession") /\ terminateDebugSession(Head(toExt).id)
    \/ \E i \in Slots, o \in ExecutableOutcomes : createDebugSessionLaunch(i, o)
    \/ \E i \in Slots, ok \in BOOLEAN : createDebugSessionStart(i, ok)
NextProxies == Registrations \/ ProxyCalls
SpecProxies == Init /\ [][NextProxies]_vars

\* The plugin starts debugging by name or by configuration while the user edits
\* the configurations.
StartDebugging ==
    \/ \E all \in UNION { [1..n -> StoredConfigurations] : n \in 0..MaxConfigurations } :
           setConfigurations(all)
    \/ \E f \in {"", "file:///a"}, n \in NamesOrConfigurations : startDebugging(f, n)
    \/ mainStartDebugging
    \/ \E i \in 1..MaxPending, o \in {"session", "undefined", "error"} :
           mainStartDebuggingReturn(i, o)
SpecStartDebugging == Init /\ [][StartDebugging]_vars

\* The calls on a PluginDebugAdapterContribution.
Adapter ==
    \/ \E c \in Configurations : provideDebugAdapterExecutable(c)
    \/ adapterProvideDebugConfigurations
    \/ \E c \in Configurations : adapterResolveDebugConfiguration(c)
    \/ adapterGetSchemaAttributes
SpecAdapter == InitAdapter /\ [][Adapter]_vars

\* The breakpoints of the host's store, shown to the plugin and handed back by it.
Breakpoints ==
    \/ \E u \in Uris : \E l \in BreakpointLists(u) : setBreakpoints(u, l)
    \/ /\ receive("$breakpointsDidChange")
       /\ breakpointsDidChange(Head(toExt).all, Head(toExt).added, Head(toExt).removed,
                               Head(toExt).changed)
    \/ \E l \in WireLists : addBreakpoints(l)
    \/ \E l \in WireLists : removeBreakpoints(l)
    \/ mainAddBreakpoints
    \/ mainRemoveBreakpoints
SpecBreakpoints == Init /\ [][Breakpoints]_vars

\* ==================================================================== claims

Registered(id) == id \in DOMAIN debugAdapterContributions
ProviderOf(id) == debugAdapterContributions[id].provider

\* What a capability query returns for a contribution id that is not in the table.
EmptyResult(op) == IF op = "$resolveDebugConfigurations" THEN Undefined ELSE List(<<>>)
QueryOps == {"$getSupportedLanguages", "$getSchemaAttributes", "$getConfigurationSnippets",
             "$provideDebugConfigurations", "$resolveDebugConfigurations"}

\* C1 as stated: while a contribution id is registered, $provideDebugConfigurations(id)
\* returns exactly what the provider of that registration returned.
C1_ExactProviderResult ==
    (reply.op = "$provideDebugConfigurations" /\ Registered(reply.id)
        /\ HasProvide(ProviderOf(reply.id)))
    => reply.result = providerProvide(ProviderOf(reply.id))

\* C1 amended: while a contribution id is registered, $provideDebugConfigurations(id)
\* returns the list the provider of that registration returned, and the empty list
\* when that provider has no provideDebugConfigurations or returned nothing; it never
\* returns what another registration's provider returned.  Once the id is disposed
\* every capability query for it returns the empty/undefined result and a
\* $createDebugSession call for it rejects.
C1_ProviderResult ==
    /\ (reply.op = "$provideDebugConfigurations" /\ Registered(reply.id))
       => reply.result =
              IF HasProvide(ProviderOf(reply.id))
                 /\ providerProvide(ProviderOf(reply.id)).k = "list"
              THEN providerProvide(ProviderOf(reply.id))
              ELSE List(<<>>)
    /\ (reply.op \in QueryOps /\ ~Registered(reply.id))
       => reply.result = EmptyResult(reply.op)
    /\ (reply.op = "$createDebugSession" /\ ~Registered(reply.id))
       => reply.result.k = "error"

\* C1 witness: two registrations with different providers are live, and the query
\* for one of them returned that one's list.
C1_Witness ==
    /\ reply.op = "$provideDebugConfigurations"
    /\ Registered(reply.id)
    /\ reply.result = providerProvide(ProviderOf(reply.id))
    /\ reply.result.k = "list"
    /\ \E other \in DOMAIN debugAdapterContributions :
           /\ other # reply.id
           /\ providerProvide(ProviderOf(other)).k = "list"
           /\ providerProvide(ProviderOf(other)) # reply.result

\* C4: $createDebugSession with a contribution id that is not in the table rejects
\* with NotFound; the call resolves no executable, starts no subprocess and leaves
\* the session registry as it was.
C4_CreateUnknownContribution ==
    [][(reply'.op = "$createDebugSession" /\ ~Registered(reply'.id))
       => /\ reply'.result = NotFound
          /\ UNCHANGED <<debugSessions, lifecycle, sessionIds, creating>>
          /\ UNCHANGED <<debugAdapterContributions, packageContributions>>]_vars

\* C4 witness: the call was rejected for an id whose registration was disposed,
\* while a session exists.
C4_Witness ==
    /\ reply.op = "$createDebugSession"
    /\ reply.result = NotFound
    /\ reply.id \in Issued("c", contributionIds)
    /\ debugSessions # EmptyMap

\* C5: for a contribution id that is not in the table, the four list queries return
\* the empty list and $resolveDebugConfigurations returns undefined; none rejects
\* and none changes a registry of either side.
C5_QueriesOfAbsentContribution ==
    [][(reply'.op \in QueryOps /\ ~Registered(reply'.id))
       => /\ reply'.result = EmptyResult(reply'.op)
          /\ UNCHANGED <<extRegistries, mainState>>]_vars

\* C5 witness: a query for a disposed id returned the empty list while another
\* contribution is registered.
C5_Witness ==
    /\ reply.op = "$getSupportedLanguages"
    /\ reply.id \in Issued("c", contributionIds)
    /\ ~Registered(reply.id)
    /\ reply.result = List(<<>>)
    /\ debugAdapterContributions # EmptyMap

Stopped(s) == s \in DOMAIN lifecycle /\ lifecycle[s].stop > 0

\* C2: $terminateDebugSession(s) never fails and leaves the session registry
\* without s: a session that was in the registry is removed (nothing else is) and
\* stopped; for an id that is not in the registry, terminated before or never
\* created, the call changes no state and stops no session.
C2_TerminateRemovesOnce ==
    [][reply'.op = "$terminateDebugSession"
       => /\ reply'.result = Void
          /\ reply'.id \notin DOMAIN debugSessions'
          /\ IF reply'.id \in DOMAIN debugSessions
             THEN /\ debugSessions' = Without(debugSessions, reply'.id)
                  /\ lifecycle' = [lifecycle EXCEPT ![reply'.id] = sessionStop(@)]
             ELSE UNCHANGED <<debugSessions, lifecycle>>
          /\ UNCHANGED <<debugAdapterContributions, packageContributions,
                         activeDebugSession, contributionIds, sessionIds, creating,
                         toMain, mainState>>]_vars

\* C2 witness: the only session created was terminated and the registry is empty
\* again.
C2_Witness ==
    /\ reply.op = "$terminateDebugSession"
    /\ Stopped(reply.id)
    /\ lifecycle[reply.id].returned
    /\ debugSessions = EmptyMap

\* C3: no session is in the registry and stopped at once, so a notification that
\* looks a session up never hands a stopped session to the listeners.
C3_RemovedBeforeStop ==
    /\ \A s \in DOMAIN debugSessions : ~Stopped(s)
    /\ (reply.result.k = "fired" /\ reply.result.v[2] # "")
       => ~Stopped(reply.result.v[2])

\* C3 witness: a notification for a terminated session found nothing while
\* another session is live.
C3_Witness ==
    /\ reply.op = "$sessionDidDestroy"
    /\ Stopped(reply.id)
    /\ reply.result = Void
    /\ debugSessions # EmptyMap

\* What was invoked on each minted session id so far: one ensureConnection, for
\* that id; at most one start, with that connection, never after a stop; at most
\* one stop, after the start.
C8_Inv ==
    \A s \in DOMAIN lifecycle :
        /\ lifecycle[s].ensure = 1
        /\ lifecycle[s].connection = s
        /\ lifecycle[s].start <= 1
        /\ lifecycle[s].returned <=> lifecycle[s].start = 1
        /\ lifecycle[s].start = 1 => lifecycle[s].channel = s
        /\ ~lifecycle[s].startAfterStop
        /\ lifecycle[s].stop <= 1
        /\ lifecycle[s].stop = 1 => lifecycle[s].start = 1
\* C8: per minted session id, the connection is ensured once and for that id;
\* start is invoked at most once, with that connection, in the step that returns
\* the id, on a session that is in the registry and was not stopped; a session is
\* stopped only after it was started.
C8_StartOncePerSession ==
    /\ []C8_Inv
    /\ [][(reply'.op = "$createDebugSession/ensureConnection" /\ reply'.result.k = "value")
          => LET s == reply'.result.v[1] IN
             /\ s \in DOMAIN debugSessions
             /\ lifecycle[s].start = 0 /\ lifecycle'[s].start = 1
             /\ ~lifecycle[s].returned /\ lifecycle'[s].returned]_vars

\* C8 witness: one session went from created to terminated, another is running.
C8_Witness ==
    \E s, r \in DOMAIN lifecycle :
        /\ lifecycle[s].start = 1 /\ lifecycle[s].stop = 1
        /\ lifecycle[r].start = 1 /\ lifecycle[r].stop = 0
        /\ r \in DOMAIN debugSessions

\* C9 as stated: after $sessionDidChange(s) with s in the registry the active
\* session is s, after $sessionDidChange(undefined) it is empty, and it always is
\* empty or in the registry.
C9_ActiveSessionFollows ==
    /\ (reply.op = "$sessionDidChange" /\ reply.id \in DOMAIN debugSessions)
       => activeDebugSession = reply.id
    /\ (reply.op = "$sessionDidChange" /\ reply.id = "") => activeDebugSession = ""
    /\ activeDebugSession = "" \/ activeDebugSession \in DOMAIN debugSessions

\* One step: the ids entering the registry are new, the terminated ids stay out.
C10_Fresh ==
    /\ \A s \in DOMAIN debugSessions' \ DOMAIN debugSessions : s \notin DOMAIN lifecycle
    /\ \A s \in DOMAIN lifecycle : Stopped(s) => s \notin DOMAIN debugSessions'
\* C10: an id minted for a session was never minted before, and a terminated id
\* never is in the session registry again.
C10_SessionIdsNeverReused ==
    /\ [](Cardinality(DOMAIN lifecycle) = sessionIds)
    /\ [][C10_Fresh]_vars

\* C10 witness: a second id was minted after the first was terminated.
C10_Witness ==
    /\ sessionIds = 2
    /\ \E s \in DOMAIN lifecycle : Stopped(s)
    /\ \E s \in DOMAIN debugSessions : lifecycle[s].returned

\* C6: $customRequest for a session id the host's session manager does not hold
\* rejects with NotFound; for one it holds, that session gets the command and the
\* arguments of the call and its response is returned.  Neither changes a registry.
C6_CustomRequest ==
    [][(reply'.op = "$customRequest" /\ toMain # <<>>)
       => /\ reply'.result =
                 IF Head(toMain).a1 \in sessionManager
                 THEN Response(Head(toMain).a1, Head(toMain).a2, Head(toMain).a3)
                 ELSE NotFound
          /\ UNCHANGED <<extState, mainState>>]_vars

\* C6 witness: a request for a session the host holds was answered by it.
C6_Witness ==
    /\ reply.op = "$customRequest"
    /\ reply.id \in sessionManager
    /\ reply.result = Response(reply.id, reply.arg, "")

\* C7 as stated: the host call a session's forwarder issues carries that session's
\* id, then the command and the arguments given, and it is not rejected with
\* NotFound while the host holds the session.
C7_ForwarderBoundToSession ==
    /\ \A i \in 1..Len(toMain) :
           toMain[i].op = "$customRequest"
           => <<toMain[i].a1, toMain[i].a2, toMain[i].a3>> = toMain[i].from
    /\ (reply.op = "$customRequest" /\ reply.from[1] \in sessionManager)
       => reply.result # NotFound

\* The resource a wire breakpoint is located in.
WireUri(b) == URItoString(b.location[1].uri)
Delta(m) == m.added \o m.removed \o m.changed
Last(q) == q[Len(q)]

\* C11: a marker change of the host's store for resource u appends exactly one
\* $breakpointsDidChange call to the channel; its all is the wire form of every
\* breakpoint the store holds at that moment, and its delta holds the breakpoints
\* of u, each once, and no breakpoint of another resource.  No other step issues
\* such a call.  The extension side, handling the call, sets breakpoints to that
\* all and fires one change event with that delta.
C11_BreakpointsRelayed ==
    [][/\ reply'.op = "onDidChangeMarkers"
          => /\ Len(toExt') = Len(toExt) + 1
             /\ SubSeq(toExt', 1, Len(toExt)) = toExt
             /\ Last(toExt').op = "$breakpointsDidChange"
             /\ Last(toExt').all =
                    toTheiaPluginApiBreakpoints(
                        breakpointsManager'[UriOrder[1]] \o breakpointsManager'[UriOrder[2]])
             /\ \A i \in 1..Len(Delta(Last(toExt'))) :
                    WireUri(Delta(Last(toExt'))[i]) = reply'.id
             /\ Len(Delta(Last(toExt'))) = Len(breakpointsManager'[reply'.id])
             /\ \A i \in 1..Len(breakpointsManager'[reply'.id]) :
                    \E j \in 1..Len(Delta(Last(toExt'))) :
                        Delta(Last(toExt'))[j].location[1].range.startLineNumber
                            = breakpointsManager'[reply'.id][i].raw.line
       /\ (Len(toExt') > Len(toExt) /\ Last(toExt').op = "$breakpointsDidChange")
          => reply'.op = "onDidChangeMarkers"
       /\ reply'.op = "$breakpointsDidChange"
          => /\ toExt # <<>>
             /\ toExt' = Tail(toExt)
             /\ breakpoints' = Head(toExt).all
             /\ reply'.result = BreakpointsChangeEvent(Head(toExt).added, Head(toExt).removed,
                                                       Head(toExt).changed)]_vars

\* C11 witness: the extension side handled a change of one resource while the
\* store held breakpoints of two: it shows both and the event carried one.
C11_Witness ==
    /\ reply.op = "$breakpointsDidChange"
    /\ Len(breakpoints) = 2
    /\ WireUri(breakpoints[1]) # WireUri(breakpoints[2])
    /\ Len(reply.result.v[1] \o reply.result.v[2] \o reply.result.v[3]) = 1

\* The wire breakpoints of a list that have a location, in order.
Located(wireBreakpoints) == SelectSeq(wireBreakpoints, LAMBDA b : b.location # None)
\* An internal breakpoint has the uri, line, condition, hit condition and log
\* message of a host breakpoint.
SameBreakpoint(internal, source) ==
    /\ internal.uri = source.uri
    /\ internal.raw.line = source.raw.line
    /\ internal.raw.condition = source.raw.condition
    /\ internal.raw.hitCondition = source.raw.hitCondition
    /\ internal.raw.logMessage = source.raw.logMessage

\* C17: the internal breakpoints $addBreakpoints and $removeBreakpoints make of a
\* wire list are one per wire breakpoint that has a location, in the order of the
\* list; a wire breakpoint that is the wire form of a host breakpoint comes back
\* with that breakpoint's uri, line, condition, hit condition and log message.
C17_BreakpointRoundTrip ==
    reply.op \in {"$addBreakpoints", "$removeBreakpoints"}
    => /\ Len(reply.result.v) = Len(Located(reply.from))
       /\ \A i \in 1..Len(reply.result.v) :
              /\ reply.result.v[i].raw.line
                     = Located(reply.from)[i].location[1].range.startLineNumber
              /\ \A u \in Uris : \A b \in SourceBreakpoints(u) :
                     toTheiaPluginApiBreakpoints(<<b>>)[1] = Located(reply.from)[i]
                     => SameBreakpoint(reply.result.v[i], b)
              /\ \E u \in Uris : \E b \in SourceBreakpoints(u) :
                     toTheiaPluginApiBreakpoints(<<b>>)[1] = Located(reply.from)[i]

\* C17 witness: of a list of a host breakpoint's wire form and a breakpoint
\* without location, the first came back with its condition, the second did not.
C17_Witness ==
    /\ reply.op = "$removeBreakpoints"
    /\ Len(reply.from) = 2
    /\ reply.from[2].location = None
    /\ Len(reply.result.v) = 1
    /\ reply.result.v[1].uri \in Uris
    /\ reply.result.v[1].raw.condition = Some("x")

\* The call that relays an event of the host's session manager.
RelayOf(event) ==
    CASE event = "onDidCreateDebugSession" -> "$sessionDidCreate"
      [] event = "onDidDestroyDebugSession" -> "$sessionDidDestroy"
      [] event = "onDidChangeActiveDebugSession" -> "$sessionDidChange"
      [] OTHER -> "$onSessionCustomEvent"
RelayOps == { RelayOf(e) : e \in SessionEvents }

\* C12: an event of the host's session manager puts exactly one call at the end
\* of the channel: the relay of that event with the id of its session (none for
\* an active-session change without a current session) and, for a custom event,
\* its name; no relay enters the channel in any other step; the extension side
\* handles the calls from the head of the channel, each once, with the id and
\* the event name the call carries.
C12_EventsRelayedOnceInOrder ==
    [][/\ reply'.op \in SessionEvents
          => toExt' = Append(toExt, Outbound(RelayOf(reply'.op), reply'.id, reply'.arg))
       /\ Len(toExt') > Len(toExt)
          => /\ reply'.op \in SessionEvents
             /\ Len(toExt') = Len(toExt) + 1
       /\ reply'.op \in RelayOps
          => /\ toExt # <<>>
             /\ Head(toExt) = Outbound(reply'.op, reply'.id, reply'.arg)
             /\ toExt' = Tail(toExt)]_vars

\* C12 witness: the creation of a session was relayed and handled, its listeners
\* fired, and the relay of its destruction is next in the channel.
C12_Witness ==
    /\ reply.op = "$sessionDidCreate"
    /\ reply.result = Fired("onDidStartDebugSession", reply.id)
    /\ toExt # <<>>
    /\ Head(toExt) = Outbound("$sessionDidDestroy", reply.id, "")

\* The call of the extension side a method of a proxy contributor stands for.
CallOf(method) ==
    CASE method = "provideDebugConfigurations" -> "$provideDebugConfigurations"
      [] method = "resolveDebugConfiguration" -> "$resolveDebugConfigurations"
      [] method = "getSupportedLanguages" -> "$getSupportedLanguages"
      [] method = "getSchemaAttributes" -> "$getSchemaAttributes"
      [] method = "getConfigurationSnippets" -> "$getConfigurationSnippets"
      [] OTHER -> "$createDebugSession"
\* The host's contribution manager holds the proxy of contributor id.
Holds(manager, id) == \E t \in DOMAIN manager : manager[t] = id

\* C13: the host's $registerDebugConfigurationProvider(id, description) leaves id
\* in the proxy table and its proxy in the contribution manager under
\* description.type; a capability or createDebugSession call of the contributor
\* held under a type issues one call to the extension side, carrying the id that
\* contributor was registered with, which is in the proxy table with that type;
\* $unregisterDebugConfigurationProvider(id) leaves the proxy table without id
\* and the contribution manager without that proxy, and changes neither when id
\* was not in the table.
C13_HostProxyTable ==
    [][/\ reply'.op = "$registerDebugConfigurationProvider"
          => /\ reply'.id \in DOMAIN proxyContributors'
             /\ proxyContributors'[reply'.id] = reply'.arg
             /\ reply'.arg \in DOMAIN contributionManager'
             /\ contributionManager'[reply'.arg] = reply'.id
       /\ reply'.op \in ProxyMethods
          => /\ Len(toExt') = Len(toExt) + 1
             /\ Last(toExt').op = CallOf(reply'.op)
             /\ Last(toExt').id = contributionManager[reply'.id]
             /\ Last(toExt').id \in DOMAIN proxyContributors
             /\ proxyContributors[Last(toExt').id] = reply'.id
             /\ UNCHANGED mainState
       /\ reply'.op = "$unregisterDebugConfigurationProvider"
          => /\ reply'.id \notin DOMAIN proxyContributors'
             /\ ~Holds(contributionManager', reply'.id)
             /\ reply'.id \notin DOMAIN proxyContributors
                => UNCHANGED <<proxyContributors, contributionManager>>]_vars

\* C13 witness: with two contributors registered, then one unregistered, a
\* createDebugSession call of the contributor the manager holds reached the
\* extension side with the id of the one that is left in the proxy table.
C13_Witness ==
    /\ reply.op = "$createDebugSession"
    /\ reply.id \in DOMAIN proxyContributors
    /\ Holds(contributionManager, reply.id)
    /\ contributionIds = 2
    /\ Cardinality(DOMAIN proxyContributors) = 1


\* The configurations of the store under a name.
Matches(name) ==
    {configurationManager[i] : i \in {j \in 1..Len(configurationManager) :
                                          configurationManager[j].name = name}}

\* C14: $startDebugging with a name the configuration store has no
\* configuration for returns false, no error, and asks the session manager for
\* nothing; with a name that has a match, or with a configuration, it asks the
\* session manager for exactly one session, with that configuration, and returns
\* true exactly when the session manager came back with a session.
C14_StartDebugging ==
    [][/\ reply'.op = "$startDebugging" =>
           LET n == Head(toMain).nameOrConfiguration
           IN IF n.k = "name" /\ Matches(n.name) = {}
              THEN reply'.result = False /\ starting' = starting
              ELSE /\ Len(starting') = Len(starting) + 1
                   /\ SubSeq(starting', 1, Len(starting)) = starting
                   /\ reply'.result = Pending
                   /\ LET c == Last(starting').configuration
                      IN /\ Len(c) = 1
                         /\ IF n.k = "name" THEN c[1] \in Matches(n.name)
                                            ELSE c = n.configuration
       /\ reply'.op = "$startDebugging/start" =>
           /\ Len(starting') = Len(starting) - 1
           /\ ((reply'.result = True) <=> (reply'.arg = "session"))
           /\ (reply'.arg = "undefined" => reply'.result = False)
       /\ reply'.op \notin {"$startDebugging", "$startDebugging/start"} =>
           starting' = starting]_vars
\* A name without a match was answered false while the store held configurations
\* under other names.
C14_Witness ==
    /\ reply.op = "$startDebugging"
    /\ reply.arg = "name"
    /\ reply.result = False
    /\ configurationManager # <<>>
    /\ starting = <<>>


\* The metadata {win: {program: "a"}, osx: {program: "b"}, linux: {program: "c"}},
\* no runtime, and the executable resolved from it.
ExampleMetadata ==
    /\ adapter.packageContribution.win = Some(PlatformRecords("a")[1])
    /\ adapter.packageContribution.osx = Some(PlatformRecords("b")[1])
    /\ adapter.packageContribution.linux = Some(PlatformRecords("c")[1])
    /\ adapter.packageContribution.winx86 = None
    /\ adapter.packageContribution.windows = None
    /\ adapter.packageContribution.runtime = None
ExampleResolved ==
    /\ reply.op = "provideDebugAdapterExecutable"
    /\ ExampleMetadata
ExampleProgram ==
    CASE os.platform = "linux" -> "c"
      [] os.platform = "darwin" -> "b"
      [] OTHER -> "a"

C19_MissingCapabilityAsAbsent ==
    /\ (reply.op = "provideDebugConfigurations" /\ ~HasProvide(adapter.provider))
           => reply.result = List(<<>>)
    /\ (reply.op = "resolveDebugConfiguration" /\ ~HasResolve(adapter.provider))
           => reply.result = Undefined

\* What the metadata determines for a field: the platform record's value, else
\* the unqualified one.
Determined(field) ==
    or(infoAnd(toPlatformInfo(adapter.packageContribution), field),
       adapter.packageContribution[field])
DeterminedList(field) ==
    orDefined(orDefined(infoAnd(toPlatformInfo(adapter.packageContribution), field),
                        adapter.packageContribution[field]), Some(<<>>))[1]
Given(field) == Determined(field) # None /\ Determined(field) # Some(<<>>)
ResolvedRuntime ==
    IF Len(Determined("runtime")[1]) > 1 /\ Determined("runtime")[1][1] = "."
    THEN join(adapter.pluginPath, Determined("runtime")[1])
    ELSE Determined("runtime")[1]
\* The composition of the executable from a program as it is to stand in it.
Composed(program) ==
    IF ~Given("program") THEN NotConfigured
    ELSE IF Given("runtime")
    THEN DebugAdapterExecutable(ResolvedRuntime,
             DeterminedList("runtimeArgs") \o <<program>> \o DeterminedList("args"))
    ELSE DebugAdapterExecutable(program, DeterminedList("args"))

Descriptor(r) == r.from[1]

\* C16: in $createDebugSession a descriptor with a command is started by spawn,
\* one with a modulePath and no command by fork, each under a session id minted
\* and registered in that step; a descriptor with neither fails with
\* UnsupportedExecutable: the call rejects and ends, and no subprocess is started,
\* no session id minted and the session registry left as it was.
C16_DescriptorDispatch ==
    [][(reply'.op = "$createDebugSession/getExecutable"
        /\ Descriptor(reply').k = "executable") =>
           LET sessionId == uuid("s", sessionIds, DOMAIN debugSessions)
               how == IF Has(Descriptor(reply'), "command") THEN "spawn" ELSE "fork"
           IN IF Has(Descriptor(reply'), "command") \/ Has(Descriptor(reply'), "modulePath")
              THEN /\ reply'.result = Launched(how, sessionId)
                   /\ sessionId \notin DOMAIN lifecycle
                   /\ DOMAIN lifecycle' = DOMAIN lifecycle \cup {sessionId}
                   /\ DOMAIN debugSessions' = DOMAIN debugSessions \cup {sessionId}
              ELSE /\ reply'.result = UnsupportedExecutable
                   /\ \E i \in 1..MaxPending :
                          /\ creating[i].pc = "getExecutable"
                          /\ creating' = [creating EXCEPT ![i] = Idle]
                   /\ lifecycle' = lifecycle
                   /\ sessionIds' = sessionIds
                   /\ debugSessions' = debugSessions]_vars
\* A descriptor with neither property was refused while a session was registered.
C16_Witness ==
    /\ reply.op = "$createDebugSession/getExecutable"
    /\ reply.from = <<Executable(<<>>)>>
    /\ reply.result = UnsupportedExecutable
    /\ DOMAIN debugSessions # {}


\* The stops invoked on session s so far, none when s was never created.
Stops(l, s) == IF s \in DOMAIN l THEN l[s].stop ELSE 0

\* C18: the subprocess of a session is disposed of once: whatever the number and
\* order of the $terminateDebugSession calls for an id, the session created
\* under it was stopped, and its subprocess killed, at most once, and exactly
\* once as soon as one such call was made; a stop is invoked only by a
\* $terminateDebugSession for that id, and only on a session that was created.
C18_StoppedExactlyOnce ==
    /\ [](\A s \in DOMAIN lifecycle : lifecycle[s].stop <= 1 /\ lifecycle[s].kill = lifecycle[s].stop)
    /\ [][/\ (reply'.op = "$terminateDebugSession" /\ reply'.id \in DOMAIN lifecycle)
              => Stops(lifecycle', reply'.id) = 1
          /\ \A s \in DOMAIN lifecycle' :
                 Stops(lifecycle', s) # Stops(lifecycle, s)
                     => /\ reply'.op = "$terminateDebugSession"
                        /\ reply'.id = s
                        /\ s \in DOMAIN debugSessions
                        /\ Stops(lifecycle, s) = 0]_vars
\* A $terminateDebugSession for a created session left it out of the registry,
\* stopped once and its subprocess killed once, while another session runs.
C18_Witness ==
    /\ reply.op = "$terminateDebugSession"
    /\ reply.id \in DOMAIN lifecycle
    /\ reply.id \notin DOMAIN debugSessions
    /\ lifecycle[reply.id].stop = 1
    /\ lifecycle[reply.id].kill = 1
    /\ \E s \in DOMAIN debugSessions : lifecycle[s].stop = 0


\* The record C21 names for the platform: on windows the windows-x86 record
\* before the windows default when PROCESSOR_ARCHITEW6432 is present, the
\* windows default (win, else windows) when it is absent; osx on macOS; linux
\* otherwise.
RecordByMarker(executable) ==
    IF isWindows /\ "PROCESSOR_ARCHITEW6432" \in os.env
    THEN orDefined(executable.winx86, orDefined(executable.win, executable.windows))
    ELSE IF isWindows THEN orDefined(executable.win, executable.windows)
    ELSE IF isOSX THEN executable.osx
    ELSE executable.linux

\* C21 as stated: the executable is resolved from the record chosen by platform
\* and marker: with the marker present on windows the windows-x86 record comes
\* before win and windows, with the marker absent win, else windows, is taken; on
\* macOS osx and otherwise linux.
C21_WindowsSelection ==
    reply.op = "provideDebugAdapterExecutable" =>
        toPlatformInfo(adapter.packageContribution) = RecordByMarker(adapter.packageContribution)


\* C22 as stated: getSchemaAttributes returns one entry per key of the
\* contribution's table when the table is defined and the empty list when it is
\* undefined, and throws for neither.
C22_SchemaAttributesWhenDefined ==
    reply.op = "adapter.getSchemaAttributes" =>
        LET table == adapter.packageContribution.configurationSnippets
        IN /\ reply.result.k = "list"
           /\ table = None => reply.result = List(<<>>)
           /\ table # None => Len(reply.result.v) = Len(table[1])


\* C23 as stated: when $createDebugSession rejects, at the lookup of the
\* contribution, at the executable, at the launch or at the connection, the
\* session registry is what it was before the call: the rejecting step adds no
\* session, and the session the call had minted is not in the registry.
C23_CreateAllOrNothing ==
    [][(/\ reply'.op \in {"$createDebugSession", "$createDebugSession/getExecutable",
                          "$createDebugSession/ensureConnection"}
        /\ reply'.result.k = "error")
       => /\ DOMAIN debugSessions' \subseteq DOMAIN debugSessions
          /\ \A i \in 1..MaxPending :
                 (creating[i].pc # "idle" /\ creating'[i] = Idle)
                     => creating[i].sessionId \notin DOMAIN debugSessions']_vars


\* C24 as stated: whatever was registered and unregistered at the host, two ids
\* under one debug type included, every id in the proxy table has a contributor
\* registered with the contribution manager under its debug type.
C24_ManagerServesEveryId ==
    \A id \in DOMAIN proxyContributors :
        proxyContributors[id] \in DOMAIN contributionManager


\* The register and unregister calls on their way to the host.
InFlight ==
    {i \in 1..Len(toMain) : toMain[i].op \in {"$registerDebugConfigurationProvider",
                                              "$unregisterDebugConfigurationProvider"}}

C26_AbsentSessionIgnored ==
    [][(/\ reply'.op \in {"$sessionDidCreate", "$sessionDidDestroy", "$onSessionCustomEvent"}
        /\ reply'.id \notin DOMAIN debugSessions)
       => /\ reply'.result = Void
          /\ UNCHANGED <<debugSessions, debugAdapterContributions, packageContributions,
                         breakpoints, activeDebugSession>>]_vars
\* A custom event arrived for a session that $terminateDebugSession had removed,
\* while another session was in the registry, and fired nothing.
C26_Witness ==
    /\ reply.op = "$onSessionCustomEvent"
    /\ Stopped(reply.id)
    /\ reply.id \notin DOMAIN debugSessions
    /\ reply.result = Void
    /\ DOMAIN debugSessions # {}

====
